---- MODULE Spec2Model ----
(***************************************************************************)
(* Model of question-generation/interact.py: the logits filter             *)
(* (top_filtering), one autoregressive generation (sample_sequence) and    *)
(* the loop of run() that primes the cached model state per paragraph.     *)
(*                                                                         *)
(* Scores are integers; -infinity is the sentinel NegInf, smaller than     *)
(* every finite score.  softmax is kept exact: the weight of a score x is  *)
(* 2^x (0 for -infinity) and a probability is weight / total weight, so a  *)
(* comparison "cumulative probability > top_p" is a comparison of          *)
(* integers, with top_p = numerator / TopPDen.                             *)
(***************************************************************************)
EXTENDS Integers, Sequences, FiniteSets, TLC

VARIABLES
    filt,     \* SpecFilter: the arguments and results of two top_filtering calls
    args,     \* the parsed command line (GenerationConfig), fixed for a run
    tie,      \* how this build orders equal scores in torch.sort / torch.topk
    vecs,     \* the logits vectors the language model can return
    lm,       \* the language model, as far as it was called: context -> logits
    ss,       \* the frames of the calls of sample_sequence
    data,     \* run(): the instances read from the dataset file
    rl,       \* run(): the locals of the loop over data
    doc,      \* run(): final_output_dict["data"][0]["paragraphs"]
    written   \* the content of generated_questions.json, <<>> while not written

samplerVars == <<args, tie, vecs, lm, ss>>
runVars == <<data, rl, doc, written>>
vars == <<filt, args, tie, vecs, lm, ss, data, rl, doc, written>>

(* ------------------------------ bounds --------------------------------- *)

\* longest score vector given to top_filtering in SpecFilter
MaxVocab == 3

\* largest finite score of an input vector in SpecFilter
MaxScore == 2

\* top_p ranges over 0/TopPDen .. TopPDen/TopPDen
TopPDen == 4

\* largest --max_length tried in SpecSample
MaxLength == 2

\* longest dataset tried in Spec
MaxInst == 3

(* --------------------------- top_filtering ----------------------------- *)

\* filter_value = -float('Inf'), also the default threshold
NegInf == -1

Min(a, b) == IF a < b THEN a ELSE b

\* numerator of F.softmax: exp of the score, 0 for -infinity
Weight(x) == IF x = NegInf THEN 0 ELSE 2 ^ x

RECURSIVE SumWeights(_, _)
SumWeights(v, S) ==
    IF S = {} THEN 0
    ELSE LET i == CHOOSE j \in S : TRUE
         IN Weight(v[i]) + SumWeights(v, S \ {i})

\* torch.topk(logits, top_k)[0][..., -1]: the k-th largest value
KthLargest(v, k) ==
    CHOOSE x \in {v[i] : i \in DOMAIN v} :
        /\ Cardinality({i \in DOMAIN v : v[i] > x}) < k
        /\ Cardinality({i \in DOMAIN v : v[i] >= x}) >= k

TopKStepLeq(logits, top_k) ==
    LET k == Min(top_k, Cardinality(DOMAIN logits))
    IN IF k > 0
       THEN [i \in DOMAIN logits |->
                IF logits[i] <= KthLargest(logits, k) THEN NegInf ELSE logits[i]]
       ELSE logits

\* lines 33-37: clamp top_k, remove what is strictly below the k-th largest
TopKStep(logits, top_k) ==
    LET k == Min(top_k, Cardinality(DOMAIN logits))
    IN IF k > 0
       THEN [i \in DOMAIN logits |->
                IF logits[i] < KthLargest(logits, k) THEN NegInf ELSE logits[i]]
       ELSE logits

\* the descending orders of the indices in S: a largest one first
RECURSIVE SortedOrders(_, _)
SortedOrders(v, S) ==
    IF S = {} THEN {<<>>}
    ELSE UNION {{<<i>> \o p : p \in SortedOrders(v, S \ {i})} :
                   i \in {a \in S : \A c \in S : v[c] <= v[a]}}

\* torch.sort(logits, descending=True)[1]: every order of the indices that
\* is descending in the scores (the order of equal scores is not specified)
SortedPerms(v) == SortedOrders(v, DOMAIN v)

\* cumulative_probabilities[j], as a weight (the common divisor is the total)
CumWeight(v, perm, j) == SumWeights(v, {perm[a] : a \in 1 .. j})

\* cumulative_probabilities > top_p, before the shift
AboveTopP(v, perm, j, top_p) ==
    CumWeight(v, perm, j) * TopPDen > top_p * SumWeights(v, DOMAIN v)

TopPStepNoShift(logits, top_p, perm) ==
    IF top_p > 0
    THEN [i \in DOMAIN logits |->
             IF \E j \in DOMAIN perm :
                    perm[j] = i /\ AboveTopP(logits, perm, j, top_p)
             THEN NegInf ELSE logits[i]]
    ELSE logits

TopPStepFirstUnprotected(logits, top_p, perm) ==
    IF top_p > 0
    THEN [i \in DOMAIN logits |->
             IF \E j \in DOMAIN perm :
                    /\ perm[j] = i
                    /\ AboveTopP(logits, perm, IF j > 1 THEN j - 1 ELSE 1, top_p)
             THEN NegInf ELSE logits[i]]
    ELSE logits

\* lines 39-52: nucleus filtering; the removal flags are shifted right by one
\* position and the first position is never removed
TopPStep(logits, top_p, perm) ==
    IF top_p > 0
    THEN [i \in DOMAIN logits |->
             IF \E j \in DOMAIN perm :
                    perm[j] = i /\ j > 1 /\ AboveTopP(logits, perm, j - 1, top_p)
             THEN NegInf ELSE logits[i]]
    ELSE logits

\* lines 54-55
ThresholdStep(logits, threshold) ==
    [i \in DOMAIN logits |-> IF logits[i] < threshold THEN NegInf ELSE logits[i]]

\* the whole of top_filtering; perm is the result of torch.sort on the
\* vector left by the top-k step
top_filtering(logits, top_k, top_p, threshold, perm) ==
    ThresholdStep(TopPStep(TopKStep(logits, top_k), top_p, perm), threshold)

Survivors(v) == {i \in DOMAIN v : v[i] # NegInf}

(* ---------------------------- the language model ----------------------- *)

\* tokenizer.convert_tokens_to_ids(SPECIAL_TOKENS); the model scores the
\* token ids 1, 2 and 3
special_tokens_ids == {3}

\* --temperature is parsed with type=int
Temperatures == {1, 2}

\* The logits the model can return in SpecSample.  Raw scores are even, so
\* that logits / temperature is exact.  In turn: token 1 alone is the
\* arg-max; the special token alone; token 2 and the special token tie.
RawLogitVecs ==
    {<<2, 0, 0>>, <<0, 0, 2>>, <<0, 2, 2>>}

\* One element of a context (of what the model has been fed): a generated
\* token, or the block of input ids built from an instance for priming
\* ("prime") or for decoding ("dec").
Tok(t) == <<"tok", t>>
PrimeInput(inst) == <<"prime", inst.id>>
DecoderInput(inst) == <<"dec", inst.id>>

\* model(input_ids, token_type_ids, past): the model is a deterministic
\* function of everything fed to it so far; its value at a context is chosen
\* when the context is first reached and is the same ever after.  The past it
\* returns is the context.
ModelCall(ctx, v) ==
    IF ctx \in DOMAIN lm
    THEN v = lm[ctx] /\ lm' = lm
    ELSE v \in vecs /\ lm' = lm @@ (ctx :> v)

(* --------------------------- sample_sequence --------------------------- *)

\* logits[0, -1, :] / args.temperature
Scale(raw, temperature) == [i \in DOMAIN raw |-> raw[i] \div temperature]

\* torch.sort of this build: equal scores by ascending ("lo") or descending
\* ("hi") index
SortPerm(v, rule) ==
    CHOOSE p \in SortedPerms(v) :
        \A a, b \in DOMAIN p :
            (a < b /\ v[p[a]] = v[p[b]]) =>
                IF rule = "lo" THEN p[a] < p[b] ELSE p[a] > p[b]

\* line 82 after line 81: top_filtering(logits, top_k, top_p), default threshold
Filtered(raw) ==
    LET scaled == Scale(raw, args.temperature)
    IN top_filtering(scaled, args.top_k, args.top_p, NegInf,
                     SortPerm(TopKStep(scaled, args.top_k), tie.sort))

\* torch.topk(probs, 1)[1]: an index of the largest probability
ArgMax(v, rule) ==
    LET best == {i \in DOMAIN v : \A j \in DOMAIN v : v[j] <= v[i]}
    IN CHOOSE i \in best :
           \A j \in best : IF rule = "lo" THEN i <= j ELSE i >= j

\* torch.multinomial(probs, 1): any token of non-zero probability
Support(filtered) == Survivors(filtered)

FirstPickSampled(filtered) == Support(filtered)

FirstPickInverted(filtered) ==
    IF args.no_sample THEN Support(filtered) ELSE {ArgMax(filtered, tie.arg)}

\* line 85: greedy arg-max with --no_sample, else one sample
FirstPick(filtered) ==
    IF args.no_sample THEN {ArgMax(filtered, tie.arg)} ELSE Support(filtered)

GuardFiresNever(i, prev) == FALSE

GuardFiresAnyLength(i, prev) == prev \in special_tokens_ids

\* line 86 (and the while of line 87, i being unchanged inside it)
GuardFires(i, prev) == i < args.min_length /\ prev \in special_tokens_ids

IsSpecialNever(tok) == FALSE

\* line 90
IsSpecial(tok) == tok \in special_tokens_ids

LoopContinuesOneMore(i) == i <= args.max_length

\* line 73: for i in range(args.max_length)
LoopContinues(i) == i < args.max_length

IdleFrame ==
    [pc |-> "idle", inst |-> <<>>, past0 |-> <<>>, past |-> <<>>,
     logits |-> <<>>, probs |-> <<>>, i |-> 0, prev |-> 0,
     resampled |-> FALSE]

\* the frame of a call sample_sequence(inst, tokenizer, model, args, past)
CallFrame(inst, past) ==
    [pc |-> "enter", inst |-> inst, past0 |-> past, past |-> past,
     logits |-> <<>>, probs |-> <<>>, i |-> 0, prev |-> 0,
     resampled |-> FALSE]

\* lines 61-71: empty the question and the paragraph, build the decoder input
\* and feed it to the model on top of the past passed in
SS_Enter(c) ==
    /\ ss[c].pc = "enter"
    /\ LET f == ss[c]
           ctx == f.past \o <<DecoderInput(f.inst)>>
       IN \E v \in vecs :
             /\ ModelCall(ctx, v)
             /\ ss' = [ss EXCEPT ![c] =
                         [f EXCEPT !.pc = "loop",
                                   !.inst = [f.inst EXCEPT
                                               !.original_question = f.inst.question,
                                               !.question = <<>>,
                                               !.orig_paragraph = f.inst.paragraph,
                                               !.paragraph = <<>>],
                                   !.past = ctx, !.logits = v, !.i = 0]]
    /\ UNCHANGED <<filt, args, tie, vecs, runVars>>

\* lines 73, 81-85: one more iteration; scale, filter, softmax, select.
\* probs stands for the softmax of the filtered logits: it is kept as the
\* filtered vector, whose survivors are the tokens of non-zero probability
SS_Select(c) ==
    /\ ss[c].pc = "loop"
    /\ LoopContinues(ss[c].i)
    /\ LET probs == Filtered(ss[c].logits)
       IN \E t \in FirstPick(probs) :
             ss' = [ss EXCEPT ![c] = [ss[c] EXCEPT !.pc = "picked",
                                                   !.probs = probs,
                                                   !.prev = t]]
    /\ UNCHANGED <<filt, args, tie, vecs, lm, runVars>>

\* lines 86-88: one turn of the while loop that draws again
SS_Resample(c) ==
    /\ ss[c].pc = "picked"
    /\ GuardFires(ss[c].i, ss[c].prev)
    /\ \E t \in Support(ss[c].probs) :
          ss' = [ss EXCEPT ![c] = [ss[c] EXCEPT !.prev = t, !.resampled = TRUE]]
    /\ UNCHANGED <<filt, args, tie, vecs, lm, runVars>>

\* lines 90-91: a special token ends the loop and is not appended
SS_Break(c) ==
    /\ ss[c].pc = "picked"
    /\ ~GuardFires(ss[c].i, ss[c].prev)
    /\ IsSpecial(ss[c].prev)
    /\ ss' = [ss EXCEPT ![c] = [ss[c] EXCEPT !.pc = "return"]]
    /\ UNCHANGED <<filt, args, tie, vecs, lm, runVars>>

\* lines 93-96: feed the token to the model, then append it to the question
SS_Append(c) ==
    /\ ss[c].pc = "picked"
    /\ ~GuardFires(ss[c].i, ss[c].prev)
    /\ ~IsSpecial(ss[c].prev)
    /\ LET f == ss[c]
           ctx == f.past \o <<Tok(f.prev)>>
       IN \E v \in vecs :
             /\ ModelCall(ctx, v)
             /\ ss' = [ss EXCEPT ![c] =
                         [f EXCEPT !.pc = "loop", !.past = ctx, !.logits = v,
                                   !.probs = <<>>,
                                   !.inst = [f.inst EXCEPT
                                               !.question = Append(@, f.prev)],
                                   !.i = f.i + 1]]
    /\ UNCHANGED <<filt, args, tie, vecs, runVars>>

\* line 73: range(args.max_length) is exhausted
SS_Exhausted(c) ==
    /\ ss[c].pc = "loop"
    /\ ~LoopContinues(ss[c].i)
    /\ ss' = [ss EXCEPT ![c] = [ss[c] EXCEPT !.pc = "return"]]
    /\ UNCHANGED <<filt, args, tie, vecs, lm, runVars>>

\* lines 97-98: restore the paragraph and return inst (and nothing else)
SS_Return(c) ==
    /\ ss[c].pc = "return"
    /\ ss' = [ss EXCEPT ![c] =
                [ss[c] EXCEPT !.pc = "done",
                              !.inst = [ss[c].inst EXCEPT
                                          !.paragraph = ss[c].inst.orig_paragraph]]]
    /\ UNCHANGED <<filt, args, tie, vecs, lm, runVars>>

(* -------------------------------- run() -------------------------------- *)

\* tokenizer.decode: every token id stands for a piece of text, and a text is
\* the sequence of the characters of the pieces.  Token 4 reads "ab", the
\* same characters as token 1 followed by token 2.
Piece(t) ==
    CASE t = 1 -> <<"a">>
      [] t = 2 -> <<"b">>
      [] t = 4 -> <<"a", "b">>
      [] OTHER -> <<"#">>

RECURSIVE Decode(_, _)
Decode(tokens, skip_special_tokens) ==
    IF tokens = <<>> THEN <<>>
    ELSE (IF skip_special_tokens /\ Head(tokens) \in special_tokens_ids
          THEN <<>> ELSE Piece(Head(tokens)))
         \o Decode(Tail(tokens), skip_special_tokens)

\* the offsets at which sub occurs in text
Occurrences(text, sub) ==
    {o \in 0 .. Len(text) - Len(sub) :
        SubSeq(text, o + 1, o + Len(sub)) = sub}

\* the lowest offset at which sub occurs in text
FirstOccurrence(text, sub) ==
    CHOOSE o \in Occurrences(text, sub) : \A q \in Occurrences(text, sub) : o <= q

IndexOrMinusOne(text, sub) ==
    IF Occurrences(text, sub) = {} THEN <<0 - 1>>
    ELSE <<FirstOccurrence(text, sub)>>

\* str.index: <<o>> for the lowest offset o, <<>> when it raises ValueError
\* because there is none
Index(text, sub) ==
    IF Occurrences(text, sub) = {} THEN <<>>
    ELSE <<FirstOccurrence(text, sub)>>

ParaIndexes == 0 .. 1
Paragraphs == {<<1, 2>>, <<2, 1>>}
Answers == {<<4>>, <<2>>}

\* one instance of the dataset, as get_dataset_from_file returns it
Instances ==
    [para_index : ParaIndexes, paragraph : Paragraphs, answer : Answers]

\* the instance at position n of the dataset with the keys sample_sequence
\* adds (empty while absent)
Inst(n, d) ==
    [id |-> n, para_index |-> d.para_index, paragraph |-> d.paragraph,
     answer |-> d.answer, question |-> <<>>, original_question |-> <<>>,
     orig_paragraph |-> <<>>]

NeedsResetAlways(para_index, prev_para_index) == TRUE

NeedsResetGreater(para_index, prev_para_index) ==
    IF prev_para_index = <<>> THEN TRUE ELSE para_index > prev_para_index[1]

NeedsResetFirstOnly(para_index, prev_para_index) == prev_para_index = <<>>

\* line 150; prev_para_index is <<>> for None and <<k>> for the number k
NeedsReset(para_index, prev_para_index) == <<para_index>> # prev_para_index

PastHandedBack(loop_past, call_past) == call_past

\* line 161: sample_sequence returns inst alone, so the past of run() is
\* what it was before the call, whatever the call did to its own past
PastAfterCall(loop_past, call_past) == loop_past

\* lines 147-161, up to the call: take the next instance; on a new
\* para_index drop the past and prime it with one model call on the context
\* of the instance (its logits are dropped); call sample_sequence
Run_Next ==
    /\ rl.pc = "next"
    /\ rl.idx <= Len(data)
    /\ LET inst == Inst(rl.idx, data[rl.idx])
           reset == NeedsReset(inst.para_index, rl.prev_para_index)
           past == IF reset THEN <<PrimeInput(inst)>> ELSE rl.past
       IN /\ rl' = [rl EXCEPT !.pc = "sampling", !.past = past,
                              !.primed = IF reset THEN @ \cup {rl.idx} ELSE @]
          /\ ss' = [ss EXCEPT ![1] = CallFrame(inst, past)]
    /\ UNCHANGED <<filt, args, tie, vecs, lm, data, doc, written>>

\* the QA record of lines 175-184 and 190-199
QARecord(question_number, generated_question, original_answer, original_paragraph) ==
    [id |-> question_number, question |-> generated_question,
     text |-> original_answer,
     answer_start |-> Index(original_paragraph, original_answer)[1]]

HasEntryNever(paragraphs, para_index) == FALSE

\* line 170: is there an entry at position para_index of the document
HasEntry(paragraphs, para_index) == Len(paragraphs) > para_index

SameContextAlways(original_paragraph, context) == TRUE

\* line 172: the assert on the paragraph text
SameContext(original_paragraph, context) == original_paragraph = context

SameQuestionNumber(question_number) == question_number

\* line 202
NextQuestionNumber(question_number) == question_number + 1

\* lines 161-202, from the return of sample_sequence: decode, then append the
\* QA record to the entry at position para_index, or append a new entry when
\* the document has no such position; an assert or a failed index() ends the
\* run
Run_Assemble ==
    /\ rl.pc = "sampling"
    /\ ss[1].pc = "done"
    /\ LET output == ss[1].inst
           original_paragraph == Decode(output.paragraph, FALSE)
           generated_question == Decode(output.question, TRUE)
           original_answer == Decode(output.answer, TRUE)
           para_index == output.para_index
           found == Index(original_paragraph, original_answer) # <<>>
           qa == QARecord(rl.question_number, generated_question,
                          original_answer, original_paragraph)
           after == [rl EXCEPT !.past = PastAfterCall(rl.past, ss[1].past),
                               !.prev_para_index = <<para_index>>]
       IN IF HasEntry(doc, para_index)
          THEN IF ~SameContext(original_paragraph, doc[para_index + 1].context)
               THEN /\ rl' = [after EXCEPT !.pc = "aborted",
                                           !.error = "AssertionError"]
                    /\ doc' = doc
               ELSE IF ~found
               THEN /\ rl' = [after EXCEPT !.pc = "aborted",
                                           !.error = "ValueError"]
                    /\ doc' = doc
               ELSE /\ rl' = [after EXCEPT !.pc = "next", !.idx = @ + 1,
                                           !.question_number = NextQuestionNumber(@)]
                    /\ doc' = [doc EXCEPT ![para_index + 1].qas = Append(@, qa)]
          ELSE IF ~found
               THEN /\ rl' = [after EXCEPT !.pc = "aborted",
                                           !.error = "ValueError"]
                    /\ doc' = doc
               ELSE /\ rl' = [after EXCEPT !.pc = "next", !.idx = @ + 1,
                                           !.question_number = NextQuestionNumber(@)]
                    /\ doc' = Append(doc, [context |-> original_paragraph,
                                           qas |-> <<qa>>])
    /\ UNCHANGED <<filt, args, tie, vecs, lm, ss, data, written>>

\* lines 70, 95: an exception raised by the model inside sample_sequence is
\* caught nowhere and ends the run
Run_ModelError ==
    /\ rl.pc = "sampling"
    /\ ss[1].pc \in {"enter", "picked"}
    /\ ss[1].pc = "picked" =>
          ~GuardFires(ss[1].i, ss[1].prev) /\ ~IsSpecial(ss[1].prev)
    /\ rl' = [rl EXCEPT !.pc = "aborted", !.error = "RuntimeError"]
    /\ UNCHANGED <<filt, args, tie, vecs, lm, ss, data, doc, written>>

LoopFinishedOrAborted ==
    \/ rl.pc = "next" /\ rl.idx > Len(data)
    \/ rl.pc = "aborted"

\* line 147: the for loop has run over all of data
LoopFinished == rl.pc = "next" /\ rl.idx > Len(data)

\* lines 204-205: after the loop, write the document
Run_Write ==
    /\ LoopFinished
    /\ rl' = [rl EXCEPT !.pc = "written"]
    /\ written' = [done |-> TRUE, paragraphs |-> doc]
    /\ UNCHANGED <<filt, args, tie, vecs, lm, ss, data, doc>>

(* ----------------------------- specifications -------------------------- *)

IdleFilter ==
    [pc |-> "idle", logits |-> <<>>, top_k |-> 0, top_p |-> 0,
     threshold |-> NegInf, perm1 |-> <<>>, out1 |-> <<>>,
     perm2 |-> <<>>, out2 |-> <<>>]

IdleArgs ==
    [max_length |-> 0, min_length |-> 0, temperature |-> 1, top_k |-> 0,
     top_p |-> 0, no_sample |-> TRUE]

IdleRun ==
    [pc |-> "idle", idx |-> 1, prev_para_index |-> <<>>, past |-> <<>>,
     question_number |-> 0, primed |-> {}, error |-> ""]

NotWritten == [done |-> FALSE, paragraphs |-> <<>>]

SamplerIdle ==
    /\ args = IdleArgs
    /\ tie = [sort |-> "lo", arg |-> "lo"]
    /\ vecs = {}
    /\ lm = <<>>
    /\ ss = <<IdleFrame>>

RunIdle ==
    /\ data = <<>>
    /\ rl = IdleRun
    /\ doc = <<>>
    /\ written = NotWritten

\* SpecFilter: top_filtering applied to a vector of finite scores, then to
\* its own result
FilterInputs ==
    UNION {[1 .. n -> 0 .. MaxScore] : n \in 1 .. MaxVocab}

Thresholds == {NegInf, 1}

FilterInit ==
    /\ \E v \in FilterInputs, k \in 0 .. MaxVocab + 1, p \in 0 .. TopPDen,
          t \in Thresholds :
           filt = [pc |-> "in", logits |-> v, top_k |-> k, top_p |-> p,
                   threshold |-> t, perm1 |-> <<>>, out1 |-> <<>>,
                   perm2 |-> <<>>, out2 |-> <<>>]
    /\ SamplerIdle
    /\ RunIdle

\* first call of top_filtering, on the input vector
FilterOnce ==
    /\ filt.pc = "in"
    /\ \E perm \in SortedPerms(TopKStep(filt.logits, filt.top_k)) :
          filt' = [filt EXCEPT
                     !.pc = "once", !.perm1 = perm,
                     !.out1 = top_filtering(filt.logits, filt.top_k, filt.top_p,
                                            filt.threshold, perm)]
    /\ UNCHANGED <<samplerVars, runVars>>

\* second call, on the first call's result, with the same parameters
FilterTwice ==
    /\ filt.pc = "once"
    /\ \E perm \in SortedPerms(TopKStep(filt.out1, filt.top_k)) :
          filt' = [filt EXCEPT
                     !.pc = "twice", !.perm2 = perm,
                     !.out2 = top_filtering(filt.out1, filt.top_k, filt.top_p,
                                            filt.threshold, perm)]
    /\ UNCHANGED <<samplerVars, runVars>>

FilterNext == FilterOnce \/ FilterTwice

SpecFilter == FilterInit /\ [][FilterNext]_vars

\* SpecSample: one call of sample_sequence for every configuration, every
\* build and every behaviour of the model; with --no_sample a second call on
\* the same inputs against the same model
SampleConfigs ==
    [max_length : 0 .. MaxLength, min_length : 0 .. MaxLength,
     temperature : Temperatures, top_k : {0, 1}, top_p : {0, 2},
     no_sample : BOOLEAN]

SampleInstance ==
    Inst(1, [para_index |-> 0, paragraph |-> <<1, 2>>, answer |-> <<2>>])

\* the CachedState passed in: empty, or primed
SamplePasts == {<<>>, <<PrimeInput(SampleInstance)>>}

SampleInit ==
    /\ filt = IdleFilter
    /\ args \in SampleConfigs
    /\ tie \in {[sort |-> r, arg |-> r] : r \in {"lo", "hi"}}
    /\ vecs = RawLogitVecs
    /\ lm = <<>>
    /\ \E p \in SamplePasts : ss = <<CallFrame(SampleInstance, p), IdleFrame>>
    /\ RunIdle

SecondCall ==
    /\ args.no_sample
    /\ ss[1].pc = "done"
    /\ ss[2].pc = "idle"
    /\ ss' = [ss EXCEPT ![2] = CallFrame(SampleInstance, ss[1].past0)]
    /\ UNCHANGED <<filt, args, tie, vecs, lm, runVars>>

SampleNext ==
    \/ SecondCall
    \/ \E c \in DOMAIN ss : SS_Enter(c)
    \/ \E c \in DOMAIN ss : SS_Select(c)
    \/ \E c \in DOMAIN ss : SS_Resample(c)
    \/ \E c \in DOMAIN ss : SS_Break(c)
    \/ \E c \in DOMAIN ss : SS_Append(c)
    \/ \E c \in DOMAIN ss : SS_Exhausted(c)
    \/ \E c \in DOMAIN ss : SS_Return(c)

SpecSample == SampleInit /\ [][SampleNext]_vars

\* one call of sample_sequence, run to its end
SampleRun ==
    \/ \E c \in DOMAIN ss : SS_Enter(c)
    \/ \E c \in DOMAIN ss : SS_Select(c)
    \/ \E c \in DOMAIN ss : SS_Resample(c)
    \/ \E c \in DOMAIN ss : SS_Break(c)
    \/ \E c \in DOMAIN ss : SS_Append(c)
    \/ \E c \in DOMAIN ss : SS_Exhausted(c)
    \/ \E c \in DOMAIN ss : SS_Return(c)

\* line 87: a turn of the while loop that draws a token which is not special
ResampleOut ==
    \E c \in DOMAIN ss :
        SS_Resample(c) /\ ss'[c].prev \notin special_tokens_ids

\* SS_Select is enabled exactly here, the filtered distribution never being
\* empty
SelectEnabled == ss[1].pc = "loop" /\ LoopContinues(ss[1].i)

\* SpecTerminate: one call of sample_sequence in which every model call
\* returns and every statement is executed in its turn (weak fairness; that
\* of SS_Select is written out with its enabling condition), and in which
\* torch.multinomial, asked again and again, ends up drawing every token of
\* non-zero probability (strong fairness of the draw)
SpecTerminate ==
    /\ SampleInit /\ [][SampleRun]_vars
    /\ WF_vars(SS_Enter(1)) /\ WF_vars(SS_Break(1))
    /\ WF_vars(SS_Append(1)) /\ WF_vars(SS_Exhausted(1))
    /\ WF_vars(SS_Return(1)) /\ SF_vars(ResampleOut)
    /\ []<>~SelectEnabled

\* Spec: run() over every dataset of at most MaxInst instances
RunConfigs ==
    [max_length : {1}, min_length : {0, 1}, temperature : {1}, top_k : {0},
     top_p : {2}, no_sample : {TRUE}]

RunVecs == {<<2, 0, 2>>}

Datasets == UNION {[1 .. n -> Instances] : n \in 0 .. MaxInst}

Init ==
    /\ filt = IdleFilter
    /\ args \in RunConfigs
    /\ tie \in [sort : {"lo"}, arg : {"lo", "hi"}]
    /\ vecs = RunVecs
    /\ lm = <<>>
    /\ ss = <<IdleFrame>>
    /\ data \in Datasets
    /\ rl = [IdleRun EXCEPT !.pc = "next"]
    /\ doc = <<>>
    /\ written = NotWritten

Next ==
    \/ Run_Next
    \/ \E c \in DOMAIN ss : SS_Enter(c)
    \/ \E c \in DOMAIN ss : SS_Select(c)
    \/ \E c \in DOMAIN ss : SS_Resample(c)
    \/ \E c \in DOMAIN ss : SS_Break(c)
    \/ \E c \in DOMAIN ss : SS_Append(c)
    \/ \E c \in DOMAIN ss : SS_Exhausted(c)
    \/ \E c \in DOMAIN ss : SS_Return(c)
    \/ Run_ModelError
    \/ Run_Assemble
    \/ Run_Write

Spec == Init /\ [][Next]_vars

(* ------------------- properties of top_filtering ----------------------- *)

Mass(v, S) == SumWeights(v, S)

MaxOf(v) == CHOOSE x \in {v[i] : i \in DOMAIN v} : \A j \in DOMAIN v : v[j] <= x

\* weight of one survivor of least score (0 when nothing survives)
LeastSurvivorWeight(v) ==
    IF Survivors(v) = {} THEN 0
    ELSE LET i == CHOOSE a \in Survivors(v) : \A b \in Survivors(v) : v[a] <= v[b]
         IN Weight(v[i])

\* C2 (as stated): a second application of top_filtering with the same
\* parameters returns the first application's output unchanged.
C2_IdempotentAlways == filt.pc = "twice" => filt.out2 = filt.out1

\* C2 (amended): the second application never restores an entry nor changes a
\* surviving value; it changes nothing when top_p = 0; when top_p > 0 it
\* changes nothing exactly when the survivors of the first application, the
\* least one left out, hold at most top_p of the survivors' mass.
C2_IdempotentWithoutTopP ==
    filt.pc = "twice" =>
        /\ Survivors(filt.out2) \subseteq Survivors(filt.out1)
        /\ \A i \in Survivors(filt.out2) : filt.out2[i] = filt.out1[i]
        /\ filt.top_p = 0 => filt.out2 = filt.out1
        /\ filt.top_p > 0 =>
              (filt.out2 = filt.out1 <=>
                 (Mass(filt.out1, DOMAIN filt.out1) - LeastSurvivorWeight(filt.out1))
                     * TopPDen
                   <= filt.top_p * Mass(filt.out1, DOMAIN filt.out1))

C2_Witness ==
    /\ filt.pc = "twice"
    /\ filt.top_p = 0
    /\ filt.top_k = 2
    /\ filt.threshold = 1
    /\ filt.out1 # filt.logits
    /\ Cardinality(Survivors(filt.out1)) = 1

\* C3: with top_k = k > 0, top_p = 0 and the default threshold the survivors
\* are exactly the entries with fewer than k entries strictly above them (the
\* entries >= the k-th largest), they keep their scores, there are at least k
\* of them (k clamped to the length), and exactly k when no other entry has
\* the k-th largest score.
C3_TopKSurvivors ==
    (filt.pc # "in" /\ filt.top_k > 0 /\ filt.top_p = 0 /\ filt.threshold = NegInf) =>
        LET in == filt.logits
            k == Min(filt.top_k, Cardinality(DOMAIN in))
            S == Survivors(filt.out1)
            kth == CHOOSE x \in {in[i] : i \in S} : \A i \in S : in[i] >= x
        IN /\ S = {i \in DOMAIN in :
                      Cardinality({j \in DOMAIN in : in[j] > in[i]}) < k}
           /\ \A i \in S : filt.out1[i] = in[i]
           /\ Cardinality(S) >= k
           /\ Cardinality({i \in DOMAIN in : in[i] = kth}) = 1
                 => Cardinality(S) = k

C3_Witness ==
    /\ filt.pc = "once" /\ filt.top_k = 2 /\ filt.top_p = 0
    /\ filt.threshold = NegInf
    /\ Cardinality(DOMAIN filt.logits) = 3
    /\ Cardinality(Survivors(filt.out1)) = 2

\* C4: with 0 < top_p < 1, top_k = 0 and the default threshold the survivors
\* hold at least top_p of the softmax mass of the input; in the sorted order
\* the first entry whose cumulative mass exceeds top_p is kept together with
\* everything before it, and everything after it is removed.
C4_TopPMass ==
    (filt.pc # "in" /\ filt.top_k = 0 /\ filt.threshold = NegInf
        /\ filt.top_p > 0 /\ filt.top_p < TopPDen) =>
        LET in == filt.logits
            perm == filt.perm1
            S == Survivors(filt.out1)
            total == Mass(in, DOMAIN in)
            first == CHOOSE j \in DOMAIN perm :
                        /\ AboveTopP(in, perm, j, filt.top_p)
                        /\ \A a \in DOMAIN perm :
                              AboveTopP(in, perm, a, filt.top_p) => j <= a
        IN /\ Mass(in, S) * TopPDen >= filt.top_p * total
           /\ S = {perm[j] : j \in 1 .. first}

C4_Witness ==
    /\ filt.pc = "once" /\ filt.top_k = 0 /\ filt.threshold = NegInf
    /\ filt.top_p = 2
    /\ Cardinality(DOMAIN filt.logits) = 3
    /\ Cardinality(Survivors(filt.out1)) = 2

\* C5: with the default threshold, whatever top_k >= 0 and top_p in [0,1],
\* the result of top_filtering on finite scores keeps at least one entry, and
\* an entry holding the maximum score is kept.
C5_NonEmpty ==
    (filt.pc # "in" /\ filt.threshold = NegInf) =>
        /\ Survivors(filt.out1) # {}
        /\ \E i \in Survivors(filt.out1) :
              /\ filt.logits[i] = MaxOf(filt.logits)
              /\ filt.out1[i] = filt.logits[i]

C5_Witness ==
    /\ filt.pc = "once" /\ filt.threshold = NegInf
    /\ filt.top_k = 1 /\ filt.top_p = 1
    /\ Cardinality(DOMAIN filt.logits) = 3
    /\ Cardinality(Survivors(filt.out1)) = 1

(* ------------------- properties of sample_sequence --------------------- *)

\* the frames of the calls that have run line 63
Started == {c \in DOMAIN ss : ss[c].pc \notin {"idle", "enter"}}

\* the context of the first model call of call c (line 70)
FirstContext(c) == ss[c].past0 \o <<DecoderInput(ss[c].inst)>>

\* C1 (as stated): with --no_sample two calls on identical inputs against
\* the same model return the same question.
C1_GreedyDeterministic ==
    (args.no_sample /\ ss[1].pc = "done" /\ ss[2].pc = "done") =>
        ss[1].inst.question = ss[2].inst.question

\* C1 (amended): with --no_sample two calls on identical inputs against the
\* same model return the same question, and leave the same context behind,
\* provided neither call entered the resampling loop of lines 86-88 (which
\* draws with torch.multinomial also under --no_sample); with min_length = 0
\* the loop is never entered.
C1_GreedyDeterministicUnlessResampled ==
    (args.no_sample /\ ss[1].pc = "done" /\ ss[2].pc = "done") =>
        /\ (~ss[1].resampled /\ ~ss[2].resampled) =>
              /\ ss[1].inst.question = ss[2].inst.question
              /\ ss[1].past = ss[2].past
        /\ args.min_length = 0 => (~ss[1].resampled /\ ~ss[2].resampled)

C1_Witness ==
    /\ args.no_sample /\ args.top_k = 1 /\ args.top_p = 2 /\ args.min_length = 1
    /\ ss[1].pc = "done" /\ ss[2].pc = "done"
    /\ ~ss[1].resampled /\ ~ss[2].resampled
    /\ Len(ss[2].inst.question) = 2

\* C6: once the question is emptied at line 63, it never holds more than
\* max_length tokens, in any configuration (min_length > max_length and
\* max_length = 0 included).
C6_LengthBound ==
    \A c \in Started : Len(ss[c].inst.question) <= args.max_length

C6_Witness ==
    /\ ss[1].pc = "done"
    /\ args.min_length > args.max_length
    /\ args.max_length = 1
    /\ Len(ss[1].inst.question) = 1

\* C7: no token of special_tokens_ids is ever in the question, with greedy
\* selection and with sampling, whether or not the resampling loop ran.
C7_NoSpecialToken ==
    \A c \in Started :
        \A k \in 1 .. Len(ss[c].inst.question) :
            ss[c].inst.question[k] \notin special_tokens_ids

C7_Witness ==
    /\ ss[1].pc = "done"
    /\ ss[1].resampled
    /\ ~args.no_sample
    /\ Len(ss[1].inst.question) = 1
    /\ args.max_length = 2

\* the model's arg-max token at a context the model was called with
ModelArgMax(ctx) == ArgMax(lm[ctx], tie.arg)

\* the successive arg-max tokens of the model from ctx on, i tokens being
\* produced already: up to the first special one, at most max_length in all
\* (the token 0, which is no token id, where the model was never called)
RECURSIVE GreedyReference(_, _)
GreedyReference(ctx, i) ==
    IF i >= args.max_length THEN <<>>
    ELSE IF ctx \notin DOMAIN lm THEN <<0>>
    ELSE IF ModelArgMax(ctx) \in special_tokens_ids THEN <<>>
    ELSE <<ModelArgMax(ctx)>>
             \o GreedyReference(ctx \o <<Tok(ModelArgMax(ctx))>>, i + 1)

\* along that sequence no arg-max is special while i < min_length
RECURSIVE ArgMaxNeverSpecialEarly(_, _)
ArgMaxNeverSpecialEarly(ctx, i) ==
    IF i >= args.max_length \/ ctx \notin DOMAIN lm THEN TRUE
    ELSE IF ModelArgMax(ctx) \in special_tokens_ids THEN i >= args.min_length
    ELSE ArgMaxNeverSpecialEarly(ctx \o <<Tok(ModelArgMax(ctx))>>, i + 1)

\* C8: with --no_sample, top_k = 0 and top_p = 0, and a model whose arg-max
\* is not special while fewer than min_length tokens are produced, the
\* question returned is the sequence of the model's successive arg-max tokens
\* up to the first special one, cut off at max_length tokens.
C8_GreedyReference ==
    \A c \in DOMAIN ss :
        (/\ ss[c].pc = "done"
         /\ args.no_sample /\ args.top_k = 0 /\ args.top_p = 0
         /\ ArgMaxNeverSpecialEarly(FirstContext(c), 0)) =>
            ss[c].inst.question = GreedyReference(FirstContext(c), 0)

\* one arg-max token, then a special arg-max before max_length is reached
C8_Witness ==
    /\ ss[1].pc = "done"
    /\ args.no_sample /\ args.top_k = 0 /\ args.top_p = 0
    /\ args.max_length = 2 /\ args.min_length = 1
    /\ ArgMaxNeverSpecialEarly(FirstContext(1), 0)
    /\ Len(ss[1].inst.question) = 1
    /\ ModelArgMax(ss[1].past) \in special_tokens_ids

(* ------------------------- properties of run() ------------------------- *)

\* the instances the loop has taken so far
Taken ==
    {n \in 1 .. Len(data) :
        n < rl.idx \/ (n = rl.idx /\ rl.pc \in {"sampling", "aborted"})}

\* the last instance at or before n for which the past was primed
GroupHead(n) ==
    CHOOSE g \in rl.primed : g <= n /\ \A h \in rl.primed : h <= n => h <= g

\* C9: the past is reset and primed for an instance exactly when it is the
\* first of the dataset or its para_index differs from that of the instance
\* just before it; the past handed to sample_sequence is then the context of
\* that one priming call.
C9_ResetRule ==
    /\ \A n \in Taken :
          n \in rl.primed <=>
              (n = 1 \/ data[n].para_index # data[n - 1].para_index)
    /\ rl.primed \subseteq Taken
    /\ (rl.pc = "sampling" /\ rl.idx \in rl.primed) =>
          ss[1].past0 = <<PrimeInput(Inst(rl.idx, data[rl.idx]))>>

C9_Witness ==
    /\ rl.pc = "written"
    /\ Len(data) = 3
    /\ data[1].para_index = data[2].para_index
    /\ data[3].para_index # data[2].para_index
    /\ rl.primed = {1, 3}

\* C10 (as stated): when sample_sequence has returned, the past held by the
\* loop is the one the call left: the decoder input and every appended token
\* on top of what was passed in.
C10_PastHandedBack ==
    (ss[1].pc = "done" /\ rl.pc \in {"next", "written", "aborted"}) =>
        rl.past = ss[1].past

\* C10 (amended): sample_sequence returns the instance alone.  The past it
\* builds (what was passed in, then the decoder input, then every appended
\* token) stays in the call; when the call has returned the loop holds the
\* past it passed in, and every call starts from the context primed for the
\* first instance of its paragraph group.
C10_PastStaysPrimed ==
    /\ \A c \in Started :
          ss[c].past = ss[c].past0 \o <<DecoderInput(ss[c].inst)>>
                         \o [k \in 1 .. Len(ss[c].inst.question) |->
                               Tok(ss[c].inst.question[k])]
    /\ (ss[1].pc = "done" /\ rl.pc \in {"next", "written", "aborted"}) =>
          rl.past = ss[1].past0
    /\ ss[1].pc # "idle" =>
          LET g == GroupHead(ss[1].inst.id)
          IN ss[1].past0 = <<PrimeInput(Inst(g, data[g]))>>

C10_Witness ==
    /\ rl.pc = "next"
    /\ rl.idx = 3
    /\ data[1].para_index = data[2].para_index
    /\ ss[1].pc = "done"
    /\ ss[1].inst.id = 2
    /\ Len(ss[1].inst.question) = 1
    /\ ss[1].past0 = <<PrimeInput(Inst(1, data[1]))>>

\* the para_index values of the instances n .. m of the dataset
ParaIndexesOf(n, m) == {data[k].para_index : k \in n .. m}

\* the instance whose context a past was primed with
PrimedFor(past) == past[1][2]

\* C11: the past handed to a call of sample_sequence is the context of one
\* priming call, made for an instance of the same para_index as the instance
\* being generated, with no instance of another para_index and no reset
\* between that priming call and this call.
C11_NoCacheSharing ==
    ss[1].pc # "idle" =>
        LET n == ss[1].inst.id
            g == PrimedFor(ss[1].past0)
        IN /\ Len(ss[1].past0) = 1
           /\ ss[1].past0[1][1] = "prime"
           /\ g \in 1 .. n
           /\ ss[1].past0 = <<PrimeInput(Inst(g, data[g]))>>
           /\ ParaIndexesOf(g, n) = {ss[1].inst.para_index}
           /\ rl.primed \cap (g .. n) = {g}

C11_Witness ==
    /\ Len(data) = 3
    /\ data[1].para_index # data[2].para_index
    /\ data[2].para_index = data[3].para_index
    /\ rl.pc = "sampling"
    /\ rl.idx = 3
    /\ ss[1].pc = "done"
    /\ PrimedFor(ss[1].past0) = 2

\* para_index starts at 0 and each next one is the same or one more
ContiguousFromZero ==
    /\ Len(data) > 0 => data[1].para_index = 0
    /\ \A n \in 2 .. Len(data) :
          data[n].para_index \in
              {data[n - 1].para_index, data[n - 1].para_index + 1}

\* instances of one para_index carry one paragraph text
ConsistentTexts ==
    \A n, m \in 1 .. Len(data) :
        data[n].para_index = data[m].para_index =>
            Decode(data[n].paragraph, FALSE) = Decode(data[m].paragraph, FALSE)

\* the positions in the dataset of the instances of para_index p, in arrival
\* order
ArrivalsOf(p) ==
    LET IsP(n) == data[n].para_index = p
    IN SelectSeq([n \in 1 .. Len(data) |-> n], IsP)

\* the positions in the dataset of the instances whose QA records an entry
\* holds, in the order of the records (the n-th instance gets id n - 1)
ArrivalsIn(entry) == [k \in 1 .. Len(entry.qas) |-> entry.qas[k].id + 1]

\* C12: for a dataset whose para_index values start at 0, are contiguous and
\* non-decreasing and whose paragraph texts are consistent, the written
\* document has one entry per distinct para_index, and the entry at position
\* p holds the paragraph text and exactly the QA records of the instances of
\* para_index p, in arrival order.
C12_DocumentShape ==
    (written.done /\ ContiguousFromZero /\ ConsistentTexts) =>
        LET paragraphs == written.paragraphs
        IN /\ Len(paragraphs) = Cardinality(ParaIndexesOf(1, Len(data)))
           /\ \A p \in ParaIndexesOf(1, Len(data)) :
                 /\ ArrivalsIn(paragraphs[p + 1]) = ArrivalsOf(p)
                 /\ \A k \in 1 .. Len(paragraphs[p + 1].qas) :
                       LET d == data[ArrivalsOf(p)[k]]
                       IN /\ paragraphs[p + 1].context =
                                Decode(d.paragraph, FALSE)
                          /\ paragraphs[p + 1].qas[k].text =
                                Decode(d.answer, TRUE)

C12_Witness ==
    /\ written.done
    /\ Len(data) = 3
    /\ data[1].para_index = 0
    /\ data[2].para_index = 0
    /\ data[3].para_index = 1
    /\ Len(written.paragraphs) = 2
    /\ Len(written.paragraphs[1].qas) = 2
    /\ Len(written.paragraphs[2].qas) = 1

\* the instances assembled so far: each one advanced question_number
Assembled == 1 .. rl.question_number

\* the decoded paragraph text of the instance at position n of the dataset
TextOf(n) == Decode(data[n].paragraph, FALSE)

\* C13 (as stated): an instance whose para_index equals that of an earlier
\* assembled instance and whose paragraph text differs from it is never
\* assembled: the run aborts instead, so all instances assembled under one
\* para_index have one text, which is the context stored for them.
C13_SameParaIndexSameText ==
    /\ \A n, m \in Assembled :
          data[n].para_index = data[m].para_index => TextOf(n) = TextOf(m)
    /\ \A e \in 1 .. Len(doc) : \A k \in 1 .. Len(doc[e].qas) :
          doc[e].context = TextOf(ArrivalsIn(doc[e])[k])

\* C13 (amended): the assert compares with the entry at list position
\* para_index.  Every record sits in an entry whose context is the paragraph
\* text of its instance; an AssertionError leaves the run aborted on an
\* instance whose text differs from the entry at its position, with no record
\* for it; and when para_index starts at 0, is contiguous and non-decreasing,
\* all instances assembled under one para_index have one text.
C13_PositionalTextCheck ==
    /\ \A e \in 1 .. Len(doc) : \A k \in 1 .. Len(doc[e].qas) :
          doc[e].context = TextOf(ArrivalsIn(doc[e])[k])
    /\ rl.error = "AssertionError" =>
          /\ rl.pc = "aborted"
          /\ Assembled = 1 .. (rl.idx - 1)
          /\ Len(doc) > data[rl.idx].para_index
          /\ doc[data[rl.idx].para_index + 1].context # TextOf(rl.idx)
    /\ ContiguousFromZero =>
          \A n, m \in Assembled :
              data[n].para_index = data[m].para_index => TextOf(n) = TextOf(m)

C13_Witness ==
    /\ rl.pc = "aborted"
    /\ rl.error = "AssertionError"
    /\ ContiguousFromZero
    /\ rl.idx = 3
    /\ data[3].para_index = 0
    /\ data[2].para_index = 0
    /\ TextOf(3) # TextOf(1)
    /\ Len(doc) = 1
    /\ Len(doc[1].qas) = 2

\* the ids of all QA records of the document
QAIds == UNION {{doc[e].qas[k].id : k \in 1 .. Len(doc[e].qas)} : e \in 1 .. Len(doc)}

\* the number of QA records of the document
RECURSIVE QACount(_)
QACount(paragraphs) ==
    IF paragraphs = <<>> THEN 0
    ELSE Len(Head(paragraphs).qas) + QACount(Tail(paragraphs))

\* C14: the n-th assembled instance of the run, counting from 0, gets the id
\* n whatever its para_index: the counter is the number of records written so
\* far and is never reset, the ids of the document are 0 .. counter - 1
\* without repetition, and inside every entry they increase strictly.
C14_SequentialIds ==
    /\ QAIds = 0 .. (rl.question_number - 1)
    /\ QACount(doc) = rl.question_number
    /\ rl.pc \in {"next", "written"} => rl.question_number = rl.idx - 1
    /\ rl.pc = "sampling" => rl.question_number = rl.idx - 1
    /\ \A e \in 1 .. Len(doc) : \A j, k \in 1 .. Len(doc[e].qas) :
          j < k => doc[e].qas[j].id < doc[e].qas[k].id
    /\ \A e \in 1 .. Len(doc) : \A k \in 1 .. Len(doc[e].qas) :
          doc[e].qas[k].text = Decode(data[doc[e].qas[k].id + 1].answer, TRUE)

C14_Witness ==
    /\ rl.pc = "written"
    /\ Len(data) = 3
    /\ data[1].para_index = 0
    /\ data[2].para_index = 1
    /\ data[3].para_index = 0
    /\ Len(doc) = 2
    /\ ArrivalsIn(doc[1]) = <<1, 3>>
    /\ ArrivalsIn(doc[2]) = <<2>>

\* the document is on disk only when the loop has assembled every instance;
\* then it is the whole document, and an aborted run has written nothing
WrittenOnlyWhenComplete ==
    /\ written.done =>
          /\ rl.pc = "written"
          /\ rl.idx = Len(data) + 1
          /\ Assembled = 1 .. Len(data)
          /\ QACount(written.paragraphs) = Len(data)
          /\ written.paragraphs = doc
    /\ ~written.done => written = NotWritten
    /\ rl.pc = "aborted" => ~written.done
    /\ rl.pc = "written" => written.done

\* C15: the document is written exactly once, after every instance has been
\* generated and assembled; a run that aborts (an assert, a failed index(),
\* an exception of the model) writes nothing, and nothing is written or
\* assembled after the write.
C15_AllOrNothing ==
    /\ []WrittenOnlyWhenComplete
    /\ [][~written.done /\ written'.done => LoopFinished]_vars
    /\ [][written.done => (written' = written /\ doc' = doc /\ rl' = rl)]_vars

C15_Witness ==
    /\ written.done
    /\ Len(data) = 3
    /\ QACount(written.paragraphs) = 3
    /\ Len(written.paragraphs) = 2

\* the while loop of lines 87-88 cannot be left: the token drawn is special,
\* fewer than min_length tokens are there, and every token of non-zero
\* probability is special
Stuck ==
    IF ss[1].pc = "picked"
    THEN /\ ss[1].i < args.min_length
         /\ ss[1].prev \in special_tokens_ids
         /\ Support(ss[1].probs) \subseteq special_tokens_ids
    ELSE FALSE

\* a token was selected in an iteration with fewer than min_length tokens
\* and only special tokens of non-zero probability
OnlySpecialEarly ==
    IF ss[1].pc = "picked"
    THEN /\ ss[1].i < args.min_length
         /\ Support(ss[1].probs) \subseteq special_tokens_ids
    ELSE FALSE

\* C16: when every model call returns and the draws are fair, a call of
\* sample_sequence returns unless it comes to an iteration with fewer than
\* min_length tokens in which only special tokens have non-zero probability;
\* it runs at most max_length iterations, and running all of them is a
\* normal end.  In such an iteration the selection is special, the while
\* loop of the guard is entered and never left, and the call never returns.
C16_Termination ==
    /\ (ss[1].pc = "enter") ~> (ss[1].pc = "done" \/ Stuck)
    /\ [](ss[1].i <= args.max_length)
    /\ [](ss[1].pc = "picked" => ss[1].i < args.max_length)
    /\ (ss[1].pc = "loop" /\ ss[1].i = args.max_length) ~> (ss[1].pc = "done")
    /\ [](OnlySpecialEarly => Stuck)
    /\ [][Stuck => Stuck']_vars

C16_Witness ==
    /\ ss[1].pc = "done"
    /\ ss[1].resampled
    /\ args.min_length = 2
    /\ args.max_length = 2
    /\ Len(ss[1].inst.question) = 2

\* the calls that have left the loop of line 73
Returned == {c \in DOMAIN ss : ss[c].pc \in {"return", "done"}}

\* C17: a call that has left the loop holds at least min(min_length,
\* max_length) tokens in question; when it left on a special token, at least
\* min_length tokens were there; so question is empty on return only when
\* min_length or max_length is 0.  This is so with --no_sample and without.
C17_MinimumLength ==
    \A c \in Returned :
        /\ Len(ss[c].inst.question) >= Min(args.min_length, args.max_length)
        /\ Len(ss[c].inst.question) = ss[c].i
        /\ ss[c].prev \in special_tokens_ids =>
              Len(ss[c].inst.question) >= args.min_length
        /\ ss[c].inst.question = <<>> =>
              (args.min_length = 0 \/ args.max_length = 0)

C17_Witness ==
    /\ ss[1].pc = "done"
    /\ args.no_sample
    /\ ss[1].resampled
    /\ args.min_length = 1
    /\ args.max_length = 2
    /\ ss[1].prev \in special_tokens_ids
    /\ Len(ss[1].inst.question) = 1

\* the instances taken so far that open a run of equal para_index values
RunHeads ==
    {n \in Taken : n = 1 \/ data[n].para_index # data[n - 1].para_index}

\* the para_index values taken so far
ParaIndexesTaken == {data[n].para_index : n \in Taken}

\* instances of one para_index come one after the other
Grouped ==
    \A a, b, c \in Taken :
        (a < b /\ b < c /\ data[a].para_index = data[c].para_index) =>
            data[b].para_index = data[a].para_index

\* C18 (as stated): whatever the order of the para_index values, the past has
\* been primed once for each distinct para_index taken so far.
C18_OnePrimingPerParaIndex ==
    Cardinality(rl.primed) = Cardinality(ParaIndexesTaken)

\* C18 (amended): the past is primed once for every run of equal consecutive
\* para_index values; that is never fewer than the distinct para_index
\* values, and as many exactly when the instances of one para_index come one
\* after the other.
C18_OnePrimingPerRun ==
    /\ rl.primed = RunHeads
    /\ Cardinality(rl.primed) >= Cardinality(ParaIndexesTaken)
    /\ Grouped <=> Cardinality(rl.primed) = Cardinality(ParaIndexesTaken)

C18_Witness ==
    /\ rl.pc = "written"
    /\ Len(data) = 3
    /\ data[1].para_index = 0
    /\ data[2].para_index = 1
    /\ data[3].para_index = 0
    /\ rl.primed = {1, 2, 3}

\* the para_index of the instance of the k-th record of entry e
ParaIndexIn(e, k) == data[ArrivalsIn(doc[e])[k]].para_index

\* C19 (as stated): for every stream, no entry mixes records of different
\* para_index values and no two entries belong to one para_index: an
\* instance starts a new entry exactly when its para_index is new.
C19_EntryPerParaIndex ==
    /\ \A e \in 1 .. Len(doc) : \A j, k \in 1 .. Len(doc[e].qas) :
          ParaIndexIn(e, j) = ParaIndexIn(e, k)
    /\ \A e, f \in 1 .. Len(doc) :
          e # f => ParaIndexIn(e, 1) # ParaIndexIn(f, 1)

\* C19 (amended): an instance starts a new entry exactly when the document
\* has no position para_index, and otherwise its record goes to the entry at
\* that position: the first record of the entry at position e - 1 is of an
\* instance whose para_index is at least e - 1, every later one of an
\* instance whose para_index is e - 1, in arrival order.  When para_index
\* starts at 0, is contiguous and non-decreasing, the entry at position p
\* holds the records of para_index p and no others.
C19_EntryPerPosition ==
    /\ \A e \in 1 .. Len(doc) :
          /\ Len(doc[e].qas) >= 1
          /\ ParaIndexIn(e, 1) >= e - 1
          /\ \A k \in 2 .. Len(doc[e].qas) :
                /\ ParaIndexIn(e, k) = e - 1
                /\ doc[e].qas[k - 1].id < doc[e].qas[k].id
          /\ \A f \in 1 .. Len(doc) :
                e < f => doc[e].qas[1].id < doc[f].qas[1].id
    /\ ContiguousFromZero =>
          /\ \A e \in 1 .. Len(doc) : \A k \in 1 .. Len(doc[e].qas) :
                ParaIndexIn(e, k) = e - 1
          /\ \A n \in Assembled :
                /\ Len(doc) > data[n].para_index
                /\ \E k \in 1 .. Len(doc[data[n].para_index + 1].qas) :
                      ArrivalsIn(doc[data[n].para_index + 1])[k] = n

C19_Witness ==
    /\ Len(data) >= 2
    /\ data[1].para_index = 1
    /\ data[2].para_index = 0
    /\ Len(doc) = 1
    /\ ArrivalsIn(doc[1]) = <<1, 2>>

\* sample_sequence has returned for an instance whose decoded answer does not
\* occur in its decoded paragraph
MissingAnswerNext ==
    /\ rl.pc = "sampling"
    /\ ss[1].pc = "done"
    /\ Occurrences(Decode(data[rl.idx].paragraph, FALSE),
                   Decode(data[rl.idx].answer, TRUE)) = {}

\* C20: assembling an instance whose answer text does not occur in its
\* paragraph text ends the run, whether or not the document has an entry at
\* its position, and leaves the document, the question counter and the
\* output file as they were; no record in the document has an answer that
\* is not at its answer_start in the context.
C20_AnswerNotFound ==
    /\ [][MissingAnswerNext =>
             /\ rl'.pc = "aborted"
             /\ doc' = doc
             /\ rl'.question_number = rl.question_number
             /\ written' = written]_vars
    /\ [](rl.error = "ValueError" =>
             /\ rl.pc = "aborted"
             /\ Assembled = 1 .. (rl.idx - 1)
             /\ Occurrences(Decode(data[rl.idx].paragraph, FALSE),
                            Decode(data[rl.idx].answer, TRUE)) = {})
    /\ [](\A e \in 1 .. Len(doc) : \A k \in 1 .. Len(doc[e].qas) :
             doc[e].qas[k].answer_start \in
                 Occurrences(doc[e].context, doc[e].qas[k].text))

C20_Witness ==
    /\ rl.pc = "aborted"
    /\ rl.error = "ValueError"
    /\ rl.idx = 2
    /\ Len(doc) = 1
    /\ data[2].para_index = 0
    /\ rl.question_number = 1

====
